---------------------------- MODULE Spec2Model ----------------------------
(***************************************************************************)
(* Model of the BHT1000 thermostat client                                  *)
(* (custom_components/bht1000/bht1000.py): the frame codec (Payload and    *)
(* its subclasses) and the controller class BHT1000 with its cached        *)
(* status fields, the derived idle flag and the socket exchange of         *)
(* __sendCommand.                                                          *)
(*                                                                         *)
(* Representation.                                                         *)
(*  - None is the empty tuple, a present value v is <<v>>.                 *)
(*  - A Python float is held as an integer number of quarter degrees       *)
(*    (21.5 is 86).  Every float the controller computes is a multiple of  *)
(*    0.25, so the arithmetic below is exact.                              *)
(*  - bytes are tuples of integers 0..255; the hex text produced by        *)
(*    binascii.hexlify is a tuple of hex digits 0..15.                     *)
(***************************************************************************)
EXTENDS Integers, Sequences, FiniteSets, TLC

VARIABLES
    self,       \* the fields of the BHT1000 instance
    th,         \* per thread: the position and locals of the running call
    active,     \* the threads that invoke operations
    lastFrame,  \* history: the fields of the last accepted status frame
    codec       \* the value that is passed through the frame codec on its own

vars == <<self, th, active, lastFrame, codec>>

None == <<>>
Some(v) == <<v>>

WEEKLY_MODE == "weekly"
MANUAL_MODE == "manual"
ID0 == 1
ID1 == 1
FLAG_LOCK == 4
FLAG_MANUAL_MODE == 8
FLAG_POWER == 16
STATE_ON == "on"
STATE_OFF == "off"

Threads == {1, 2}

---------------------------------------------------------------------------
(* Integer helpers: Python's &, |, ^ on ints of at most eight bits (every   *)
(* operand the codec passes is below 256), and int() on floats             *)

RECURSIVE BitOp(_, _, _, _)
BitOp(kind, a, b, n) ==
    IF n = 0 THEN 0
    ELSE LET x == a % 2
             y == b % 2
             bit == CASE kind = "and" -> IF x = 1 /\ y = 1 THEN 1 ELSE 0
                      [] kind = "or"  -> IF x = 1 \/ y = 1 THEN 1 ELSE 0
                      [] OTHER        -> IF x # y THEN 1 ELSE 0
         IN  bit + 2 * BitOp(kind, a \div 2, b \div 2, n - 1)

BitAnd(a, b) == BitOp("and", a, b, 8)
BitOr(a, b) == BitOp("or", a, b, 8)
BitXor(a, b) == BitOp("xor", a, b, 8)

\* int(x) of a float x = n / d: truncation toward zero
Trunc(n, d) == IF n >= 0 THEN n \div d ELSE -((-n) \div d)

---------------------------------------------------------------------------
(* Frame codec                                                             *)

\* Payload.__init__: the eight fields, in wire order
Payload(command, id0, id1, data0, data1, data2, data3, checksum) ==
    <<command, id0, id1, data0, data1, data2, data3, checksum>>

get_command(p) == p[1]
get_id0(p) == p[2]
get_id1(p) == p[3]
get_data0(p) == p[4]
get_data1(p) == p[5]
get_data2(p) == p[6]
get_data3(p) == p[7]
get_checksum(p) == p[8]

\* variant: the identifiers are left out of the sum
calculate_checksum_without_ids(command, id0, id1, data0, data1, data2, data3) ==
    BitXor((command + data0 + data1 + data2 + data3) % 256, 165)

\* (command + id0 + ... + data3) & 0xFF ^ 0xA5; & binds tighter than ^
calculate_checksum(command, id0, id1, data0, data1, data2, data3) ==
    BitXor((command + id0 + id1 + data0 + data1 + data2 + data3) % 256, 165)

OutgoingPayload(command, data0, data1, data2, data3) ==
    Payload(command, ID0, ID1, data0, data1, data2, data3,
            calculate_checksum(command, ID0, ID1, data0, data1, data2, data3))

\* bytearray.append raises ValueError for a value outside 0..255
AppendRaises(p) == \E i \in 1..7 : p[i] < 0 \/ p[i] > 255

getBytesHex(p) ==
    <<get_command(p), get_id0(p), get_id1(p), get_data0(p), get_data1(p),
      get_data2(p), get_data3(p),
      calculate_checksum(get_command(p), get_id0(p), get_id1(p), get_data0(p),
                         get_data1(p), get_data2(p), get_data3(p))>>

ReadStatusCommandPayload == OutgoingPayload(160, 0, 0, 0, 0)

\* setpoint is a float in quarter degrees: int(setpoint * 2.0)
SetAllDataCommandPayload(mode, power, lock, calibration, setpoint) ==
    LET d0a == IF lock = STATE_ON THEN BitOr(0, FLAG_LOCK) ELSE 0
        d0b == IF mode = MANUAL_MODE THEN BitOr(d0a, FLAG_MANUAL_MODE) ELSE d0a
        d0c == IF power = STATE_ON THEN BitOr(d0b, FLAG_POWER) ELSE d0b
    IN  OutgoingPayload(161, d0c,
                        IF calibration < 0 THEN calibration + 256 ELSE calibration,
                        Trunc(setpoint * 2, 4),
                        0)

UnLockCommandPayload == OutgoingPayload(164, 0, 1, 1, 1)
LockCommandPayload == OutgoingPayload(164, 1, 1, 1, 1)

\* time is <<second, minute, hour, weekday>>
SetTimeCommandPayload(time) ==
    OutgoingPayload(168, time[1], time[2], time[3], time[4] + 1)

\* binascii.hexlify: two hex digits per byte, high digit first
hexlify(bytes) ==
    [i \in 1..(2 * Len(bytes)) |->
        IF i % 2 = 1 THEN bytes[(i + 1) \div 2] \div 16
                     ELSE bytes[i \div 2] % 16]

\* the Python slice payload[a:b]
Slice(payload, a, b) ==
    LET hi == IF b < Len(payload) THEN b ELSE Len(payload)
    IN  IF a >= hi THEN <<>> ELSE SubSeq(payload, a + 1, hi)

\* int(s, 16) raises ValueError on the empty string
IntRaises(s) == Len(s) = 0

RECURSIVE IntHex(_)
IntHex(s) ==
    IF Len(s) = 0 THEN 0
    ELSE 16 * IntHex(SubSeq(s, 1, Len(s) - 1)) + s[Len(s)]

\* IncomingPayload.__init__ raises when one of its eight int() calls does
IncomingRaises(payload) ==
    \E k \in 0..7 : IntRaises(Slice(payload, 2 * k, 2 * k + 2))

\* variant: the frame is taken from the last 16 characters
IncomingPayloadLast16(payload) ==
    LET n == Len(payload) - 16
    IN  Payload(IntHex(Slice(payload, n, n + 2)), IntHex(Slice(payload, n + 2, n + 4)),
                IntHex(Slice(payload, n + 4, n + 6)), IntHex(Slice(payload, n + 6, n + 8)),
                IntHex(Slice(payload, n + 8, n + 10)), IntHex(Slice(payload, n + 10, n + 12)),
                IntHex(Slice(payload, n + 12, n + 14)), IntHex(Slice(payload, n + 14, n + 16)))

IncomingPayload(payload) ==
    Payload(IntHex(Slice(payload, 0, 2)), IntHex(Slice(payload, 2, 4)),
            IntHex(Slice(payload, 4, 6)), IntHex(Slice(payload, 6, 8)),
            IntHex(Slice(payload, 8, 10)), IntHex(Slice(payload, 10, 12)),
            IntHex(Slice(payload, 12, 14)), IntHex(Slice(payload, 14, 16)))

\* variant: id1 is not compared
is_valid_ignores_id1(p) == get_command(p) = 80 /\ get_id0(p) = 1
\* variant: a status frame is valid only if its checksum is the computed one
is_valid_with_checksum(p) ==
    /\ get_command(p) = 80 /\ get_id0(p) = 1 /\ get_id1(p) = 1
    /\ get_checksum(p) = calculate_checksum(get_command(p), get_id0(p), get_id1(p),
                                            get_data0(p), get_data1(p), get_data2(p),
                                            get_data3(p))
\* variant: the command byte is not compared
is_valid_any_command(p) == get_id0(p) = 1 /\ get_id1(p) = 1
is_valid(p) == get_command(p) = 80 /\ get_id0(p) = 1 /\ get_id1(p) = 1
\* variant: any flag counts as the lock flag
is_locked_any_flag(p) == get_data0(p) # 0
is_locked(p) == BitAnd(FLAG_LOCK, get_data0(p)) = FLAG_LOCK
get_mode(p) ==
    IF BitAnd(FLAG_MANUAL_MODE, get_data0(p)) = FLAG_MANUAL_MODE
    THEN MANUAL_MODE ELSE WEEKLY_MODE
is_on(p) == BitAnd(FLAG_POWER, get_data0(p)) = FLAG_POWER
\* variant: data1 read as a signed byte
get_calibration_signed(p) ==
    IF get_data1(p) >= 128 THEN get_data1(p) - 256 ELSE get_data1(p)
get_calibration(p) == get_data1(p) - 256
\* float(data) / 2.0, in quarter degrees
get_setpoint(p) == (4 * get_data2(p)) \div 2
get_temperature(p) == (4 * get_data3(p)) \div 2

---------------------------------------------------------------------------
(* What the environment supplies: constructor arguments, call arguments    *)
(* and the bytes the peer answers with.                                    *)

\* hysteresis given to BHT1000.__init__ (1.0 is the default, 0.5 a variant)
HysteresisValues == {4, 2}

\* temperatures passed to set_temperature: 21.5, 21.25, 128.0 and -1.5
TemperatureArgs == {86, 85, 512, -6}

\* datetime passed to set_time: <<second, minute, hour, weekday()>>
TimeArgs == {<<59, 30, 23, 6>>}

Data0Samples == {0, 16, 28, 11}
Data1Samples == {0, 251}
Data2Samples == {42, 255}
Data3Samples == {38, 41, 43, 44}

StatusFrame(data0, data1, data2, data3) ==
    <<80, 1, 1, data0, data1, data2, data3,
      calculate_checksum(80, 1, 1, data0, data1, data2, data3)>>

StatusFrames ==
    {StatusFrame(d0, d1, d2, d3) :
        d0 \in Data0Samples, d1 \in Data1Samples,
        d2 \in Data2Samples, d3 \in Data3Samples}

\* frames that are not status responses, or carry a wrong checksum byte
OtherFrames ==
    { <<81, 1, 1, 0, 0, 255, 38, 0>>,
      <<80, 2, 1, 0, 0, 255, 38, 0>>,
      <<80, 1, 0, 0, 0, 255, 38, 0>>,
      getBytesHex(ReadStatusCommandPayload),
      <<80, 1, 1, 0, 0, 255, 38, 0>>,
      <<80, 1, 1, 28, 251, 42, 44, 255>> }

\* fewer than eight bytes (the empty answer is a peer that closed)
ShortAnswers ==
    { SubSeq(StatusFrame(0, 0, 255, 38), 1, n) : n \in {0, 1, 2, 5, 7} }

\* more than eight bytes
LongAnswers == { StatusFrame(16, 251, 42, 38) \o <<1, 2>> }

Answers == StatusFrames \cup OtherFrames \cup ShortAnswers \cup LongAnswers

---------------------------------------------------------------------------
(* Controller state                                                        *)

\* sock.settimeout(10), in seconds
SocketTimeout == 10

\* variant: the read has a timeout of its own
TimeoutOfPhase(call) == IF call = "recv" THEN 3 ELSE SocketTimeout

\* the timeout in force during a blocking call: the one timeout of the
\* socket, whether the call is connect, send or recv
TimeoutOf(call) == SocketTimeout

\* seconds a blocking call lasted when it ended in socket.timeout (0 otherwise)
Waited(call, outcome) == IF outcome = "timeout" THEN TimeoutOf(call) ELSE 0

\* BHT1000.__init__
NewController(hysteresis) ==
    [ hysteresis          |-> hysteresis,
      current_temperature |-> None,
      setpoint            |-> None,
      power               |-> None,
      mode                |-> None,
      locked              |-> None,
      calibration         |-> None,
      idle                |-> None ]

\* the locals of a thread that runs no operation
NoCall ==
    [ pc            |-> "idle",
      op            |-> "none",
      arg           |-> <<>>,
      command       |-> <<>>,
      sock          |-> "none",
      bytesReceived |-> <<>>,
      response      |-> <<>>,
      wasIdle       |-> FALSE,
      sendResult    |-> None,
      result        |-> None,
      failure       |-> "none",
      pre           |-> None,
      opened        |-> 0,
      written       |-> <<>>,
      reads         |-> 0,
      value         |-> None,
      waited        |-> 0 ]

\* nothing is passed through the codec on its own
NoCodec ==
    [ stage    |-> "none",
      kind     |-> "none",
      input    |-> <<>>,
      origin   |-> <<>>,
      payload  |-> <<>>,
      bytes    |-> <<>>,
      trailing |-> <<>>,
      hex      |-> <<>>,
      decoded  |-> <<>>,
      status   |-> None ]

Init ==
    /\ self \in {NewController(h) : h \in HysteresisValues}
    /\ th = [t \in Threads |-> NoCall]
    /\ active = {1}
    /\ lastFrame = None
    /\ codec = NoCodec

is_data_valid ==
    /\ self.mode # None
    /\ self.power # None
    /\ self.locked # None
    /\ self.calibration # None
    /\ self.setpoint # None

\* what the public method returns once __sendCommand has returned r:
\* read_status discards r and returns True, the others return r
PublicResult(op, r) == IF op = "read_status" THEN TRUE ELSE r

\* __sendCommand returns r
SendReturns(loc, r, why) ==
    [loc EXCEPT !.pc = "done", !.sendResult = Some(r),
                !.result = Some(PublicResult(loc.op, r)), !.failure = why]

\* a public method is entered and, past its guard, enters __sendCommand
Enter(t, op, arg, command) ==
    th' = [th EXCEPT ![t] =
              [NoCall EXCEPT !.pc = "connect", !.op = op, !.arg = arg,
                             !.command = command, !.pre = Some(self)]]

\* a public method returns False at its guard
Refuse(t, op, arg) ==
    th' = [th EXCEPT ![t] =
              [NoCall EXCEPT !.pc = "done", !.op = op, !.arg = arg,
                             !.result = Some(FALSE), !.failure = "precondition",
                             !.pre = Some(self)]]

CanCall(t) == t \in active /\ th[t].pc = "idle"

\* check_host: a socket is opened, connected with a 10 s timeout and closed
\* by the with block; True iff nothing raised
check_host(t) ==
    /\ CanCall(t)
    /\ th' = [th EXCEPT ![t] =
                 [NoCall EXCEPT !.pc = "probe", !.op = "check_host",
                                !.pre = Some(self)]]
    /\ UNCHANGED <<self, active, lastFrame, codec>>

CheckHostConnect(t) ==
    /\ th[t].pc = "probe"
    /\ \E outcome \in {"ok", "error", "timeout"} :
          th' = [th EXCEPT ![t] =
                    [@ EXCEPT !.pc = "probe_exit", !.sock = "open",
                              !.opened = @ + 1,
                              !.failure = IF outcome = "ok" THEN "none"
                                          ELSE "connect_" \o outcome,
                              !.waited = Waited("connect", outcome)]]
    /\ UNCHANGED <<self, active, lastFrame, codec>>

\* variant: True whatever the connect did
CheckHostExitAlwaysTrue(t) ==
    /\ th[t].pc = "probe_exit"
    /\ th' = [th EXCEPT ![t] =
                 [@ EXCEPT !.pc = "done", !.sock = "closed",
                           !.result = Some(TRUE)]]
    /\ UNCHANGED <<self, active, lastFrame, codec>>

CheckHostExit(t) ==
    /\ th[t].pc = "probe_exit"
    /\ th' = [th EXCEPT ![t] =
                 [@ EXCEPT !.pc = "done", !.sock = "closed",
                           !.result = Some(th[t].failure = "none")]]
    /\ UNCHANGED <<self, active, lastFrame, codec>>

read_status(t) ==
    /\ CanCall(t)
    /\ Enter(t, "read_status", <<>>, ReadStatusCommandPayload)
    /\ UNCHANGED <<self, active, lastFrame, codec>>

turn_on(t) ==
    /\ CanCall(t)
    /\ IF is_data_valid
       THEN Enter(t, "turn_on", <<>>,
                  SetAllDataCommandPayload(self.mode[1], STATE_ON, self.locked[1],
                                           self.calibration[1], self.setpoint[1]))
       ELSE Refuse(t, "turn_on", <<>>)
    /\ UNCHANGED <<self, active, lastFrame, codec>>

turn_off(t) ==
    /\ CanCall(t)
    /\ IF is_data_valid
       THEN Enter(t, "turn_off", <<>>,
                  SetAllDataCommandPayload(self.mode[1], STATE_OFF, self.locked[1],
                                           self.calibration[1], self.setpoint[1]))
       ELSE Refuse(t, "turn_off", <<>>)
    /\ UNCHANGED <<self, active, lastFrame, codec>>

set_temperature(t, temperature) ==
    /\ CanCall(t)
    /\ IF is_data_valid
       THEN Enter(t, "set_temperature", <<temperature>>,
                  SetAllDataCommandPayload(self.mode[1], self.power[1], self.locked[1],
                                           self.calibration[1], temperature))
       ELSE Refuse(t, "set_temperature", <<temperature>>)
    /\ UNCHANGED <<self, active, lastFrame, codec>>

\* variant: the fixed Lock frame is sent without the completeness guard
lock_unguarded(t) ==
    /\ CanCall(t)
    /\ Enter(t, "lock", <<>>, LockCommandPayload)
    /\ UNCHANGED <<self, active, lastFrame, codec>>

lock(t) ==
    /\ CanCall(t)
    /\ IF is_data_valid
       THEN Enter(t, "lock", <<>>, LockCommandPayload)
       ELSE Refuse(t, "lock", <<>>)
    /\ UNCHANGED <<self, active, lastFrame, codec>>

unlock(t) ==
    /\ CanCall(t)
    /\ IF is_data_valid
       THEN Enter(t, "unlock", <<>>, UnLockCommandPayload)
       ELSE Refuse(t, "unlock", <<>>)
    /\ UNCHANGED <<self, active, lastFrame, codec>>

\* variant: the power argument is STATE_ON, as in turn_on
set_manual_mode_power_on(t) ==
    /\ CanCall(t)
    /\ IF is_data_valid
       THEN Enter(t, "set_manual_mode", <<>>,
                  SetAllDataCommandPayload(MANUAL_MODE, STATE_ON, self.locked[1],
                                           self.calibration[1], self.setpoint[1]))
       ELSE Refuse(t, "set_manual_mode", <<>>)
    /\ UNCHANGED <<self, active, lastFrame, codec>>

set_manual_mode(t) ==
    /\ CanCall(t)
    /\ IF is_data_valid
       THEN Enter(t, "set_manual_mode", <<>>,
                  SetAllDataCommandPayload(MANUAL_MODE, self.power[1], self.locked[1],
                                           self.calibration[1], self.setpoint[1]))
       ELSE Refuse(t, "set_manual_mode", <<>>)
    /\ UNCHANGED <<self, active, lastFrame, codec>>

set_weekly_mode(t) ==
    /\ CanCall(t)
    /\ IF is_data_valid
       THEN Enter(t, "set_weekly_mode", <<>>,
                  SetAllDataCommandPayload(WEEKLY_MODE, self.power[1], self.locked[1],
                                           self.calibration[1], self.setpoint[1]))
       ELSE Refuse(t, "set_weekly_mode", <<>>)
    /\ UNCHANGED <<self, active, lastFrame, codec>>

set_time(t, time) ==
    /\ CanCall(t)
    /\ IF is_data_valid
       THEN Enter(t, "set_time", time, SetTimeCommandPayload(time))
       ELSE Refuse(t, "set_time", time)
    /\ UNCHANGED <<self, active, lastFrame, codec>>

---------------------------------------------------------------------------
(* __sendCommand, one action per step                                      *)

\* the attributes a consumer reads: the climate entity reads the five
\* properties BHT1000 defines, the lock entity reads `locked`
PropertyNames == {"current_temperature", "mode", "power", "setpoint", "idle", "locked"}

\* the @property getters of BHT1000; any other name raises AttributeError
Exposed == {"current_temperature", "mode", "power", "setpoint", "idle"}

\* controller.<name> is evaluated
read_property(t, name) ==
    /\ CanCall(t)
    /\ th' = [th EXCEPT ![t] =
                 IF name \in Exposed
                 THEN [NoCall EXCEPT !.pc = "done", !.op = "property",
                                     !.arg = <<name>>, !.pre = Some(self),
                                     !.value = Some(self[name])]
                 ELSE [NoCall EXCEPT !.pc = "done", !.op = "property",
                                     !.arg = <<name>>, !.pre = Some(self),
                                     !.failure = "AttributeError"]]
    /\ UNCHANGED <<self, active, lastFrame, codec>>

\* socket.socket(), settimeout(10), sock.connect((host, port))
Connect(t) ==
    /\ th[t].pc = "connect"
    /\ \E outcome \in {"ok", "error", "timeout"} :
          th' = [th EXCEPT ![t] =
                    IF outcome = "ok"
                    THEN [@ EXCEPT !.pc = "send", !.sock = "open",
                                   !.opened = @ + 1]
                    ELSE [@ EXCEPT !.pc = "exit_exc", !.sock = "open",
                                   !.opened = @ + 1,
                                   !.failure = "connect_" \o outcome,
                                   !.waited = Waited("connect", outcome)]]
    /\ UNCHANGED <<self, active, lastFrame, codec>>

\* bytesToSend = command.getBytesHex(); sock.send(bytesToSend)
Send(t) ==
    /\ th[t].pc = "send"
    /\ IF AppendRaises(th[t].command)
       THEN th' = [th EXCEPT ![t] = [@ EXCEPT !.pc = "exit_exc",
                                               !.failure = "encode"]]
       ELSE \E outcome \in {"ok", "error", "timeout"} :
               th' = [th EXCEPT ![t] =
                         IF outcome = "ok"
                         THEN [@ EXCEPT !.pc = "recv",
                                        !.written = Append(@, getBytesHex(th[t].command))]
                         ELSE [@ EXCEPT !.pc = "exit_exc",
                                        !.failure = "send_" \o outcome,
                                        !.waited = Waited("send", outcome)]]
    /\ UNCHANGED <<self, active, lastFrame, codec>>

\* variant: recv has no timeout and the peer may stay silent
RecvFromBlocks(t, answers) ==
    /\ th[t].pc = "recv"
    /\ \/ \E data \in answers :
             th' = [th EXCEPT ![t] = [@ EXCEPT !.pc = "exit_ok",
                                               !.reads = @ + 1,
                                               !.bytesReceived = hexlify(data)]]
       \/ th' = [th EXCEPT ![t] = [@ EXCEPT !.pc = "blocked", !.reads = @ + 1]]
    /\ UNCHANGED <<self, active, lastFrame, codec>>

\* bytesReceived = binascii.hexlify(sock.recv(64)), the peer answering with
\* one of `answers`
RecvFrom(t, answers) ==
    /\ th[t].pc = "recv"
    /\ \/ \E data \in answers :
             th' = [th EXCEPT ![t] = [@ EXCEPT !.pc = "exit_ok",
                                               !.reads = @ + 1,
                                               !.bytesReceived = hexlify(data)]]
       \/ \E outcome \in {"error", "timeout"} :
             th' = [th EXCEPT ![t] = [@ EXCEPT !.pc = "exit_exc",
                                               !.reads = @ + 1,
                                               !.failure = "recv_" \o outcome,
                                               !.waited = Waited("recv", outcome)]]
    /\ UNCHANGED <<self, active, lastFrame, codec>>

Recv(t) == RecvFrom(t, Answers)

\* variant: the socket is closed on the normal path only
ExitWithLeak(t) ==
    /\ th[t].pc \in {"exit_ok", "exit_exc"}
    /\ th' = [th EXCEPT ![t] =
                 IF th[t].pc = "exit_ok"
                 THEN [@ EXCEPT !.pc = "decode", !.sock = "closed"]
                 ELSE SendReturns(@, FALSE, th[t].failure)]
    /\ UNCHANGED <<self, active, lastFrame, codec>>

\* variant: the exception leaves __sendCommand after the socket is closed
ExitWithReraise(t) ==
    /\ th[t].pc \in {"exit_ok", "exit_exc"}
    /\ th' = [th EXCEPT ![t] =
                 IF th[t].pc = "exit_ok"
                 THEN [@ EXCEPT !.pc = "decode", !.sock = "closed"]
                 ELSE [@ EXCEPT !.pc = "done", !.sock = "closed"]]
    /\ UNCHANGED <<self, active, lastFrame, codec>>

\* variant: a failed exchange is attempted once more
ExitWithRetry(t) ==
    /\ th[t].pc \in {"exit_ok", "exit_exc"}
    /\ th' = [th EXCEPT ![t] =
                 IF th[t].pc = "exit_ok"
                 THEN [@ EXCEPT !.pc = "decode", !.sock = "closed"]
                 ELSE IF th[t].opened < 2
                      THEN [@ EXCEPT !.pc = "connect", !.sock = "closed",
                                     !.failure = "none"]
                      ELSE SendReturns([@ EXCEPT !.sock = "closed"], FALSE, th[t].failure)]
    /\ UNCHANGED <<self, active, lastFrame, codec>>

\* variant: a failed exchange forgets the cached temperature
ExitWithClears(t) ==
    /\ th[t].pc \in {"exit_ok", "exit_exc"}
    /\ th' = [th EXCEPT ![t] =
                 IF th[t].pc = "exit_ok"
                 THEN [@ EXCEPT !.pc = "decode", !.sock = "closed"]
                 ELSE SendReturns([@ EXCEPT !.sock = "closed"], FALSE, th[t].failure)]
    /\ self' = IF th[t].pc = "exit_exc"
               THEN [self EXCEPT !.current_temperature = None]
               ELSE self
    /\ UNCHANGED <<active, lastFrame, codec>>

\* leaving the with block closes the socket, normally or on an exception;
\* an exception then reaches the except clause, which returns False
ExitWith(t) ==
    /\ th[t].pc \in {"exit_ok", "exit_exc"}
    /\ th' = [th EXCEPT ![t] =
                 IF th[t].pc = "exit_ok"
                 THEN [@ EXCEPT !.pc = "decode", !.sock = "closed"]
                 ELSE SendReturns([@ EXCEPT !.sock = "closed"], FALSE, th[t].failure)]
    /\ UNCHANGED <<self, active, lastFrame, codec>>

\* the length test, StatusPayload(bytesReceived), is_valid() and wasIdle
Decode(t) ==
    /\ th[t].pc = "decode"
    /\ LET received == th[t].bytesReceived
       IN  th' = [th EXCEPT ![t] =
                  IF Len(received) > 3
                  THEN IF IncomingRaises(received)
                       THEN SendReturns(@, FALSE, "malformed")
                       ELSE IF is_valid(IncomingPayload(received))
                            THEN [@ EXCEPT !.pc = "write",
                                           !.response = IncomingPayload(received),
                                           !.wasIdle = (self.idle = Some(TRUE)
                                                        \/ self.idle = None)]
                            ELSE SendReturns(@, FALSE, "invalid")
                  ELSE SendReturns(@, FALSE, "short")]
    /\ UNCHANGED <<self, active, lastFrame, codec>>

\* variant: after set_temperature the setpoint is the requested one
WriteFieldsRequested(t) ==
    /\ th[t].pc = "write"
    /\ LET response == th[t].response
       IN  /\ self' = [self EXCEPT
                  !.current_temperature = Some(get_temperature(response)),
                  !.setpoint = IF th[t].op = "set_temperature"
                               THEN Some(th[t].arg[1])
                               ELSE Some(get_setpoint(response)),
                  !.calibration = Some(get_calibration(response)),
                  !.power = Some(IF is_on(response) THEN STATE_ON ELSE STATE_OFF),
                  !.mode = Some(get_mode(response)),
                  !.locked = Some(IF is_locked(response) THEN STATE_ON ELSE STATE_OFF)]
           /\ lastFrame' = Some(response)
    /\ th' = [th EXCEPT ![t] = [@ EXCEPT !.pc = "derive"]]
    /\ UNCHANGED <<active, codec>>

\* the six assignments from the response
WriteFields(t) ==
    /\ th[t].pc = "write"
    /\ LET response == th[t].response
       IN  /\ self' = [self EXCEPT
                  !.current_temperature = Some(get_temperature(response)),
                  !.setpoint = Some(get_setpoint(response)),
                  !.calibration = Some(get_calibration(response)),
                  !.power = Some(IF is_on(response) THEN STATE_ON ELSE STATE_OFF),
                  !.mode = Some(get_mode(response)),
                  !.locked = Some(IF is_locked(response) THEN STATE_ON ELSE STATE_OFF)]
           /\ lastFrame' = Some(response)
    /\ th' = [th EXCEPT ![t] = [@ EXCEPT !.pc = "derive"]]
    /\ UNCHANGED <<active, codec>>

\* variant: no dead band, the temperature is compared with the setpoint
NextIdleNoBand(wasIdle) ==
    IF self.power = Some(STATE_ON)
    THEN ~(self.current_temperature[1] < self.setpoint[1])
    ELSE TRUE

\* variant: the band edges are inclusive
NextIdleInclusive(wasIdle) ==
    IF self.power = Some(STATE_ON)
    THEN IF /\ wasIdle
            /\ 2 * self.current_temperature[1] <= 2 * self.setpoint[1] - self.hysteresis
         THEN FALSE
         ELSE IF /\ wasIdle = FALSE
                 /\ 2 * self.current_temperature[1] >= 2 * self.setpoint[1] + self.hysteresis
              THEN TRUE
              ELSE wasIdle
    ELSE TRUE

\* variant: with power off the previous state is kept
NextIdlePowerOffKeeps(wasIdle) ==
    IF self.power = Some(STATE_ON)
    THEN IF /\ wasIdle
            /\ 2 * self.current_temperature[1] < 2 * self.setpoint[1] - self.hysteresis
         THEN FALSE
         ELSE IF /\ wasIdle = FALSE
                 /\ 2 * self.current_temperature[1] > 2 * self.setpoint[1] + self.hysteresis
              THEN TRUE
              ELSE wasIdle
    ELSE wasIdle

\* variant: the band is drawn around the setpoint cached before the exchange
NextIdleOldSetpoint(wasIdle) ==
    LET t == CHOOSE u \in Threads : th[u].pc = "derive"
        old == th[t].pre[1].setpoint
        setpoint == IF old = None THEN self.setpoint[1] ELSE old[1]
    IN  IF self.power = Some(STATE_ON)
        THEN IF /\ wasIdle
                /\ 2 * self.current_temperature[1] < 2 * setpoint - self.hysteresis
             THEN FALSE
             ELSE IF /\ wasIdle = FALSE
                     /\ 2 * self.current_temperature[1] > 2 * setpoint + self.hysteresis
                  THEN TRUE
                  ELSE wasIdle
        ELSE TRUE

\* variant: the band rule is applied whatever the power
NextIdleIgnoresPower(wasIdle) ==
    IF /\ wasIdle
       /\ 2 * self.current_temperature[1] < 2 * self.setpoint[1] - self.hysteresis
    THEN FALSE
    ELSE IF /\ wasIdle = FALSE
            /\ 2 * self.current_temperature[1] > 2 * self.setpoint[1] + self.hysteresis
         THEN TRUE
         ELSE wasIdle

\* the idle flag computed from the fields of self and wasIdle.
\* x < setpoint - hysteresis / 2.0 is compared doubled: 2x < 2 setpoint - hysteresis
NextIdle(wasIdle) ==
    IF self.power = Some(STATE_ON)
    THEN IF /\ wasIdle
            /\ 2 * self.current_temperature[1] < 2 * self.setpoint[1] - self.hysteresis
         THEN FALSE
         ELSE IF /\ wasIdle = FALSE
                 /\ 2 * self.current_temperature[1] > 2 * self.setpoint[1] + self.hysteresis
              THEN TRUE
              ELSE wasIdle
    ELSE TRUE

DeriveIdle(t) ==
    /\ th[t].pc = "derive"
    /\ self' = [self EXCEPT !.idle = Some(NextIdle(th[t].wasIdle))]
    /\ th' = [th EXCEPT ![t] = SendReturns(@, TRUE, "none")]
    /\ UNCHANGED <<active, lastFrame, codec>>

\* the public method hands its result to the caller
Return(t) ==
    /\ th[t].pc = "done"
    /\ th' = [th EXCEPT ![t] = NoCall]
    /\ UNCHANGED <<self, active, lastFrame, codec>>

Next ==
    \E t \in Threads :
        \/ check_host(t)
        \/ CheckHostConnect(t)
        \/ CheckHostExit(t)
        \/ read_status(t)
        \/ turn_on(t)
        \/ turn_off(t)
        \/ \E temperature \in TemperatureArgs : set_temperature(t, temperature)
        \/ lock(t)
        \/ unlock(t)
        \/ set_manual_mode(t)
        \/ set_weekly_mode(t)
        \/ \E time \in TimeArgs : set_time(t, time)
        \/ \E name \in PropertyNames : read_property(t, name)
        \/ Connect(t)
        \/ Send(t)
        \/ Recv(t)
        \/ ExitWith(t)
        \/ Decode(t)
        \/ WriteFields(t)
        \/ DeriveIdle(t)
        \/ Return(t)

Spec == Init /\ [][Next]_vars

---------------------------------------------------------------------------
(* Two callers on one controller: thread 1 invokes any operation while     *)
(* thread 2 polls read_status.  Nothing in BHT1000 orders their steps.     *)

\* what the peer answers in the two-caller runs
ConcAnswers ==
    { StatusFrame(16, 251, 42, 38),
      StatusFrame(16, 251, 42, 41),
      StatusFrame(0, 0, 255, 44),
      <<80, 1, 0, 0, 0, 255, 38, 0>> }

InitConc ==
    /\ self = NewController(4)
    /\ th = [t \in Threads |-> NoCall]
    /\ active = Threads
    /\ lastFrame = None
    /\ codec = NoCodec

NextConc ==
    \/ \E t \in Threads :
          \/ read_status(t)
          \/ Connect(t)
          \/ Send(t)
          \/ RecvFrom(t, ConcAnswers)
          \/ ExitWith(t)
          \/ Decode(t)
          \/ WriteFields(t)
          \/ DeriveIdle(t)
          \/ Return(t)
    \/ turn_on(1)
    \/ turn_off(1)
    \/ set_temperature(1, 86)
    \/ lock(1)
    \/ unlock(1)
    \/ set_manual_mode(1)
    \/ set_weekly_mode(1)
    \/ \E time \in TimeArgs : set_time(1, time)

SpecConc == InitConc /\ [][NextConc]_vars

---------------------------------------------------------------------------
(* One caller whose thread keeps running: every step inside an operation   *)
(* is taken once it can be.  settimeout(10) bounds connect, send and recv, *)
(* so each of them ends: with a result, an error or socket.timeout.        *)

\* what the peer answers in these runs; a silent peer is the recv timeout
LiveAnswers ==
    { StatusFrame(16, 251, 42, 38),
      StatusFrame(0, 0, 255, 44),
      <<80, 1, 0, 0, 0, 255, 38, 0>>,
      <<80, 1>> }

InitLive ==
    /\ self = NewController(4)
    /\ th = [t \in Threads |-> NoCall]
    /\ active = {1}
    /\ lastFrame = None
    /\ codec = NoCodec

\* the steps inside an operation of thread t
Step(t) ==
    \/ CheckHostConnect(t)
    \/ CheckHostExit(t)
    \/ Connect(t)
    \/ Send(t)
    \/ RecvFrom(t, LiveAnswers)
    \/ ExitWith(t)
    \/ Decode(t)
    \/ WriteFields(t)
    \/ DeriveIdle(t)

NextLive ==
    \E t \in Threads :
        \/ check_host(t)
        \/ read_status(t)
        \/ turn_on(t)
        \/ turn_off(t)
        \/ \E temperature \in TemperatureArgs : set_temperature(t, temperature)
        \/ lock(t)
        \/ unlock(t)
        \/ set_manual_mode(t)
        \/ set_weekly_mode(t)
        \/ \E time \in TimeArgs : set_time(t, time)
        \/ Step(t)
        \/ Return(t)

SpecLive ==
    /\ InitLive
    /\ [][NextLive]_vars
    /\ \A t \in Threads : WF_vars(Step(t))

---------------------------------------------------------------------------
(* The frame codec on its own: a payload is constructed, encoded by        *)
(* getBytesHex, put on the wire as hex text, decoded by IncomingPayload    *)
(* and read through the StatusPayload accessors.                           *)

ByteCorners == {0, 255}

\* <<command, data0, data1, data2, data3>>: field i takes the value v while
\* the other four sit on the corners c
RawInput(i, v, c) ==
    [j \in 1..5 |-> IF j < i THEN c[j] ELSE IF j = i THEN v ELSE c[j - 1]]

CalibrationArgs == (-258)..257
SetpointArgs == {84, 85, 510, 512}

\* <<mode, power, lock, calibration, setpoint>>
SetAllInputs ==
    {WEEKLY_MODE, MANUAL_MODE} \X {STATE_ON, STATE_OFF} \X {STATE_ON, STATE_OFF}
        \X CalibrationArgs \X SetpointArgs

\* <<command, id0, id1>> of a received frame: one field takes every byte
\* value while the others are the accepted value or a corner
HeaderInputs ==
    UNION { { [j \in 1..3 |-> IF j = i THEN v ELSE c[j]] : v \in 0..255 } :
            i \in 1..3, c \in {80, 0, 255} \X {1, 0, 255} \X {1, 0, 255} }

IncomingFrames ==
    { <<h[1], h[2], h[3], 0, 0, 255, 38, 0>> : h \in HeaderInputs }
        \cup { <<80, 1, 1, d0, d1, 42, 38, 0>> : d0 \in {0, 28}, d1 \in 0..255 }
        \cup { <<80, 1, 1>> }

\* bytes that follow the frame in the same read
TrailingSamples == {<<>>, <<1, 2>>, <<255>>}

InitCodec ==
    /\ self = NewController(4)
    /\ th = [t \in Threads |-> NoCall]
    /\ active = {}
    /\ lastFrame = None
    /\ codec = NoCodec

\* a payload object was constructed from `input`
Constructed(kind, input, payload) ==
    [NoCodec EXCEPT !.stage = "payload", !.kind = kind,
                    !.input = input, !.payload = payload]

NewOutgoingPayload ==
    /\ codec.stage = "none"
    /\ \E i \in 1..5, v \in 0..255, c \in [1..4 -> ByteCorners] :
          LET q == RawInput(i, v, c)
          IN  codec' = Constructed("outgoing", q,
                                   OutgoingPayload(q[1], q[2], q[3], q[4], q[5]))
    /\ UNCHANGED <<self, th, active, lastFrame>>

NewSetAllDataCommandPayload ==
    /\ codec.stage = "none"
    /\ \E q \in SetAllInputs :
          codec' = Constructed("set_all", q,
                               SetAllDataCommandPayload(q[1], q[2], q[3], q[4], q[5]))
    /\ UNCHANGED <<self, th, active, lastFrame>>

NewReadStatusCommandPayload ==
    /\ codec.stage = "none"
    /\ codec' = Constructed("read_status", <<>>, ReadStatusCommandPayload)
    /\ UNCHANGED <<self, th, active, lastFrame>>

NewLockCommandPayload ==
    /\ codec.stage = "none"
    /\ codec' = Constructed("lock", <<>>, LockCommandPayload)
    /\ UNCHANGED <<self, th, active, lastFrame>>

NewUnLockCommandPayload ==
    /\ codec.stage = "none"
    /\ codec' = Constructed("unlock", <<>>, UnLockCommandPayload)
    /\ UNCHANGED <<self, th, active, lastFrame>>

NewSetTimeCommandPayload ==
    /\ codec.stage = "none"
    /\ \E time \in TimeArgs :
          codec' = Constructed("set_time", time, SetTimeCommandPayload(time))
    /\ UNCHANGED <<self, th, active, lastFrame>>

\* command.getBytesHex()
Encode ==
    /\ codec.stage = "payload"
    /\ codec' = IF AppendRaises(codec.payload)
                THEN [codec EXCEPT !.stage = "raised"]
                ELSE [codec EXCEPT !.stage = "bytes",
                                   !.bytes = getBytesHex(codec.payload)]
    /\ UNCHANGED <<self, th, active, lastFrame>>

\* the frame comes back as hex text, possibly followed by more bytes
Hexlify ==
    /\ codec.stage = "bytes"
    /\ \E more \in TrailingSamples :
          codec' = [codec EXCEPT !.stage = "hex", !.trailing = more,
                                 !.hex = hexlify(codec.bytes \o more)]
    /\ UNCHANGED <<self, th, active, lastFrame>>

\* hex text received from a device
NewIncoming ==
    /\ codec.stage = "none"
    /\ \E frame \in IncomingFrames :
          codec' = [NoCodec EXCEPT !.stage = "hex", !.kind = "incoming",
                                   !.hex = hexlify(frame)]
    /\ UNCHANGED <<self, th, active, lastFrame>>

\* StatusPayload(bytesReceived)
DecodeHex ==
    /\ codec.stage = "hex"
    /\ codec' = IF IncomingRaises(codec.hex)
                THEN [codec EXCEPT !.stage = "raised"]
                ELSE [codec EXCEPT !.stage = "decoded",
                                   !.decoded = IncomingPayload(codec.hex)]
    /\ UNCHANGED <<self, th, active, lastFrame>>

\* the StatusPayload accessors
ReadAccessors ==
    /\ codec.stage = "decoded"
    /\ codec' = [codec EXCEPT
          !.stage = "read",
          !.status = Some([ valid       |-> is_valid(codec.decoded),
                            locked      |-> is_locked(codec.decoded),
                            mode        |-> get_mode(codec.decoded),
                            on          |-> is_on(codec.decoded),
                            calibration |-> get_calibration(codec.decoded),
                            setpoint    |-> get_setpoint(codec.decoded),
                            temperature |-> get_temperature(codec.decoded) ])]
    /\ UNCHANGED <<self, th, active, lastFrame>>

\* a SetAllData command is built from what a valid status frame decoded to
ReEncode ==
    /\ codec.stage = "read"
    /\ codec.kind = "incoming"
    /\ codec.status[1].valid
    /\ LET st == codec.status[1]
           q == <<st.mode, IF st.on THEN STATE_ON ELSE STATE_OFF,
                  IF st.locked THEN STATE_ON ELSE STATE_OFF,
                  st.calibration, st.setpoint>>
       IN  codec' = [NoCodec EXCEPT
               !.stage = "payload", !.kind = "reencoded", !.input = q,
               !.origin = codec.hex,
               !.payload = SetAllDataCommandPayload(q[1], q[2], q[3], q[4], q[5])]
    /\ UNCHANGED <<self, th, active, lastFrame>>

NextCodec ==
    \/ NewOutgoingPayload
    \/ NewSetAllDataCommandPayload
    \/ NewReadStatusCommandPayload
    \/ NewLockCommandPayload
    \/ NewUnLockCommandPayload
    \/ NewSetTimeCommandPayload
    \/ Encode
    \/ Hexlify
    \/ NewIncoming
    \/ DecodeHex
    \/ ReadAccessors
    \/ ReEncode

SpecCodec == InitCodec /\ [][NextCodec]_vars

---------------------------------------------------------------------------
(* Vocabulary of the properties.  The wire facts are read off the hex text *)
(* that was received, not through the codec's accessors.                   *)

Byte(hex, k) == 16 * hex[2 * k + 1] + hex[2 * k + 2]

\* a valid status frame was received: at least 16 hex characters,
\* command 0x50, id0 = id1 = 0x01
GoodAnswer(hex) ==
    /\ Len(hex) >= 16
    /\ Byte(hex, 0) = 80
    /\ Byte(hex, 1) = 1
    /\ Byte(hex, 2) = 1

HasBit(x, flag) == (x \div flag) % 2 = 1
OnOff(b) == IF b THEN "on" ELSE "off"

\* the operation of thread t has finished and its result is not yet collected
Finished(t) == th[t].pc = "done"
Succeeded(t) == Finished(t) /\ GoodAnswer(th[t].bytesReceived)
\* it finished without a valid status frame: refused at the guard, a
\* transport failure, a short or invalid answer (or check_host, which reads none)
Failed(t) == Finished(t) /\ ~GoodAnswer(th[t].bytesReceived)

\* the answer's fields, floats in quarter degrees
AnsData0(t) == Byte(th[t].bytesReceived, 3)
AnsCalibration(t) == Byte(th[t].bytesReceived, 4) - 256
AnsSetpoint(t) == 2 * Byte(th[t].bytesReceived, 5)
AnsTemperature(t) == 2 * Byte(th[t].bytesReceived, 6)
AnsPowerOn(t) == HasBit(AnsData0(t), 16)

\* the fields of self when the operation was called
Before(t) == th[t].pre[1]
WasIdleBefore(t) == Before(t).idle \in {None, Some(TRUE)}

\* doubled comparisons against setpoint -/+ hysteresis / 2
BelowBand(t) == 2 * AnsTemperature(t) < 2 * AnsSetpoint(t) - self.hysteresis
AboveBand(t) == 2 * AnsTemperature(t) > 2 * AnsSetpoint(t) + self.hysteresis
OnLowEdge(t) == 2 * AnsTemperature(t) = 2 * AnsSetpoint(t) - self.hysteresis
OnHighEdge(t) == 2 * AnsTemperature(t) = 2 * AnsSetpoint(t) + self.hysteresis

GuardedOps ==
    {"turn_on", "turn_off", "set_temperature", "set_manual_mode",
     "set_weekly_mode", "set_time", "lock", "unlock"}

---------------------------------------------------------------------------
\* C1: read_status returns False whenever its exchange fails (connect,
\* write or read error, timeout, short response, response failing
\* validation); it returns True only when a valid status frame was received.
C1_ReadStatusReportsFailure ==
    \A t \in Threads :
        (Failed(t) /\ th[t].op = "read_status") => th[t].result = Some(FALSE)

\* C2: after an operation that failed, whatever the failure kind, the seven
\* snapshot fields have exactly the values they had when it was called.
C2_FailureLeavesSnapshot ==
    \A t \in Threads :
        Failed(t) =>
            /\ self.current_temperature = Before(t).current_temperature
            /\ self.setpoint = Before(t).setpoint
            /\ self.calibration = Before(t).calibration
            /\ self.power = Before(t).power
            /\ self.mode = Before(t).mode
            /\ self.locked = Before(t).locked
            /\ self.idle = Before(t).idle

\* a frame with a wrong id1 was received while the snapshot says power on, heating
C2_Witness ==
    \E t \in Threads :
        /\ Failed(t)
        /\ Len(th[t].bytesReceived) = 16
        /\ Byte(th[t].bytesReceived, 2) # 1
        /\ self.power = Some(STATE_ON)
        /\ self.idle = Some(FALSE)

\* C3: while no exchange has succeeded, each guarded operation returns False,
\* opens no connection and writes no frame.
C3_GuardRefuses ==
    \A t \in Threads :
        (th[t].op \in GuardedOps /\ lastFrame = None) =>
            /\ Finished(t)
            /\ th[t].result = Some(FALSE)
            /\ th[t].opened = 0
            /\ th[t].sock = "none"
            /\ th[t].written = <<>>

C3_Witness ==
    \E t \in Threads :
        /\ th[t].op = "lock"
        /\ lastFrame = None
        /\ th[t].result = Some(FALSE)

\* C4: after an operation that received a valid status frame, each of the six
\* mirrored fields equals the value decoded from that frame.
C4_SnapshotIsTheResponse ==
    \A t \in Threads :
        Succeeded(t) =>
            /\ self.current_temperature = Some(AnsTemperature(t))
            /\ self.setpoint = Some(AnsSetpoint(t))
            /\ self.calibration = Some(AnsCalibration(t))
            /\ self.power = Some(OnOff(AnsPowerOn(t)))
            /\ self.mode = Some(IF HasBit(AnsData0(t), 8) THEN "manual" ELSE "weekly")
            /\ self.locked = Some(OnOff(HasBit(AnsData0(t), 4)))

\* set_temperature(21.5) on a snapshot with setpoint 127.5 was answered with
\* setpoint 21.0
C4_Witness ==
    \E t \in Threads :
        /\ Succeeded(t)
        /\ th[t].op = "set_temperature"
        /\ th[t].arg = <<86>>
        /\ Before(t).setpoint = Some(510)
        /\ self.setpoint = Some(84)

\* C5 as stated: inside the dead band, with power on, the idle state is the
\* one before the exchange (Unknown stays Unknown).
C5_DeadBandKeepsState ==
    \A t \in Threads :
        ( /\ Succeeded(t)
          /\ AnsPowerOn(t)
          /\ ~(WasIdleBefore(t) /\ BelowBand(t))
          /\ ~(~WasIdleBefore(t) /\ AboveBand(t)) )
        => self.idle = Before(t).idle

\* C5 amended: inside the dead band, with power on, Idle stays Idle, Heating
\* stays Heating, and Unknown becomes Idle.
C5_DeadBandKeepsKnownState ==
    \A t \in Threads :
        ( /\ Succeeded(t)
          /\ AnsPowerOn(t)
          /\ ~(WasIdleBefore(t) /\ BelowBand(t))
          /\ ~(~WasIdleBefore(t) /\ AboveBand(t)) )
        => self.idle = IF Before(t).idle = None THEN Some(TRUE) ELSE Before(t).idle

\* Heating, and the new temperature lies below the setpoint but not above the band
C5_Witness ==
    \E t \in Threads :
        /\ Succeeded(t)
        /\ AnsPowerOn(t)
        /\ Before(t).idle = Some(FALSE)
        /\ AnsTemperature(t) < AnsSetpoint(t)
        /\ self.idle = Some(FALSE)

\* C6: with power on, Idle or Unknown and a temperature strictly below
\* setpoint - hysteresis/2 gives Heating; Heating and a temperature strictly
\* above setpoint + hysteresis/2 gives Idle; a temperature exactly on a band
\* edge flips nothing.
C6_BandEdges ==
    \A t \in Threads :
        (Succeeded(t) /\ AnsPowerOn(t)) =>
            /\ (WasIdleBefore(t) /\ BelowBand(t)) => self.idle = Some(FALSE)
            /\ (~WasIdleBefore(t) /\ AboveBand(t)) => self.idle = Some(TRUE)
            /\ (WasIdleBefore(t) /\ OnLowEdge(t)) => self.idle = Some(TRUE)
            /\ (~WasIdleBefore(t) /\ OnHighEdge(t)) => self.idle = Some(FALSE)

\* Heating, hysteresis 1.0, setpoint 21.0 and temperature 21.5: still Heating
C6_Witness ==
    \E t \in Threads :
        /\ Succeeded(t)
        /\ AnsPowerOn(t)
        /\ ~WasIdleBefore(t)
        /\ OnHighEdge(t)
        /\ self.idle = Some(FALSE)

\* C7: after a successful exchange whose response has the power bit clear,
\* the idle state is Idle.
C7_PowerOffIsIdle ==
    \A t \in Threads :
        (Succeeded(t) /\ ~AnsPowerOn(t)) => self.idle = Some(TRUE)

\* Heating before, and a power-off response whose temperature is below the band
C7_Witness ==
    \E t \in Threads :
        /\ Succeeded(t)
        /\ ~AnsPowerOn(t)
        /\ Before(t).idle = Some(FALSE)
        /\ BelowBand(t)
        /\ self.idle = Some(TRUE)

\* C8: the scenario reads temperatures 21.6 and 21.2, which no status frame
\* carries: a decoded temperature is data3 / 2.0, a multiple of 0.5.
\* Every temperature the controller holds is a whole number of half degrees.
C8_TemperaturesAreHalfDegrees ==
    self.current_temperature # None => self.current_temperature[1] % 2 = 0

CompositeOps ==
    {"turn_on", "turn_off", "set_temperature", "set_manual_mode", "set_weekly_mode"}

\* the frame thread t has just written
Written(t) == th[t].written[1]

\* SetAllData built from the decode of a status frame with data1 = data2 = b
ReEncoded(b) ==
    LET f == <<80, 1, 1, 0, b, b, 0, 0>>
    IN  getBytesHex(SetAllDataCommandPayload(get_mode(f), OnOff(is_on(f)),
                                             OnOff(is_locked(f)),
                                             get_calibration(f), get_setpoint(f)))

\* C9: the SetAllData frame written by a composite command differs from the
\* last accepted status frame only in the field the command names: turn_on
\* and turn_off set the power bit, set_temperature sets data2,
\* set_manual_mode and set_weekly_mode set the mode bit; data1 and data2 are
\* re-encoded byte-identically for every byte value 0..255.
C9_OnlyTheNamedField ==
    \A t \in Threads :
        (th[t].pc = "recv" /\ th[t].op \in CompositeOps) =>
            LET w == Written(t)
                f == lastFrame[1]
                op == th[t].op
            IN  /\ w[1] = 161
                /\ w[5] = f[5]
                /\ op # "set_temperature" => w[6] = f[6]
                /\ op = "set_temperature" => w[6] = Trunc(2 * th[t].arg[1], 4)
                /\ HasBit(w[4], 4) = HasBit(f[4], 4)
                /\ op \notin {"set_manual_mode", "set_weekly_mode"}
                      => HasBit(w[4], 8) = HasBit(f[4], 8)
                /\ op = "set_manual_mode" => HasBit(w[4], 8)
                /\ op = "set_weekly_mode" => ~HasBit(w[4], 8)
                /\ op \notin {"turn_on", "turn_off"}
                      => HasBit(w[4], 16) = HasBit(f[4], 16)
                /\ op = "turn_on" => HasBit(w[4], 16)
                /\ op = "turn_off" => ~HasBit(w[4], 16)
                /\ \A b \in 0..255 :
                      LET r == ReEncoded(b) IN r[5] = b /\ r[6] = b

\* turn_off written after a status frame with power on, locked, manual,
\* data1 = 251: the frame keeps lock and mode and data1
C9_Witness ==
    \E t \in Threads :
        /\ th[t].pc = "recv"
        /\ th[t].op = "turn_off"
        /\ lastFrame # None
        /\ lastFrame[1][4] = 28
        /\ lastFrame[1][5] = 251
        /\ Written(t)[4] = 12
        /\ Written(t)[5] = 251

\* C10: the connection an operation opened is closed before the response is
\* decoded, before any field of the snapshot is written and before the
\* operation returns, on the normal and on every failing path.
C10_ClosedBeforeDecode ==
    [][ /\ \A t \in Threads :
              th'[t].pc \in {"decode", "write", "derive", "done"}
                  => th'[t].sock # "open"
        /\ self' # self => \A t \in Threads : th[t].sock # "open" ]_vars

\* a read timed out and the operation is about to return
C10_Witness ==
    \E t \in Threads :
        /\ Finished(t)
        /\ th[t].failure = "recv_timeout"
        /\ th[t].opened = 1
        /\ th[t].sock = "closed"

\* C11: snapshot updates are serialized: between the read of the previous
\* idle state and the write of the new one no other exchange touches the
\* snapshot, so when an exchange writes idle the six fields are the decode of
\* its own response and the idle value it read is still the current one.
C11_UpdatesSerialized ==
    \A t \in Threads :
        th[t].pc = "derive" =>
            /\ self.current_temperature = Some(AnsTemperature(t))
            /\ self.setpoint = Some(AnsSetpoint(t))
            /\ self.calibration = Some(AnsCalibration(t))
            /\ self.power = Some(OnOff(AnsPowerOn(t)))
            /\ th[t].wasIdle = (self.idle \in {None, Some(TRUE)})

---------------------------------------------------------------------------
\* x XOR 0xA5 for x in 0..255: bits 0, 2, 5 and 7 are flipped
XorA5(x) ==
    LET flip(b) == IF HasBit(x, b) THEN -b ELSE b
    IN  x + flip(1) + flip(4) + flip(32) + flip(128)

\* the checksum the protocol prescribes for seven field values
ExpectedChecksum(command, id0, id1, data0, data1, data2, data3) ==
    XorA5((command + id0 + id1 + data0 + data1 + data2 + data3) % 256)

\* a frame of at least 8 bytes whose eighth byte is not the prescribed checksum
BadChecksum(hex) ==
    /\ Len(hex) >= 16
    /\ Byte(hex, 7) # ExpectedChecksum(Byte(hex, 0), Byte(hex, 1), Byte(hex, 2),
                                       Byte(hex, 3), Byte(hex, 4), Byte(hex, 5),
                                       Byte(hex, 6))

SnapshotUnchanged(t) ==
    /\ self.current_temperature = Before(t).current_temperature
    /\ self.setpoint = Before(t).setpoint
    /\ self.calibration = Before(t).calibration
    /\ self.power = Before(t).power
    /\ self.mode = Before(t).mode
    /\ self.locked = Before(t).locked
    /\ self.idle = Before(t).idle

\* C12 as stated: an operation that received a well-formed frame with a wrong
\* checksum returns failure and leaves the snapshot unchanged.
C12_BadChecksumIsInvalid ==
    \A t \in Threads :
        (Finished(t) /\ BadChecksum(th[t].bytesReceived)) =>
            /\ th[t].result = Some(FALSE)
            /\ SnapshotUnchanged(t)

\* C12 amended: the checksum of a response is not verified.  A well-formed
\* frame with a wrong checksum is accepted when its command is 0x50 and
\* id0 = id1 = 0x01: the exchange succeeds and the six mirrored fields are
\* its decode.  Otherwise the exchange fails and the snapshot is unchanged.
C12_ChecksumIsNotVerified ==
    \A t \in Threads :
        (Finished(t) /\ BadChecksum(th[t].bytesReceived)) =>
            IF GoodAnswer(th[t].bytesReceived)
            THEN /\ th[t].sendResult = Some(TRUE)
                 /\ th[t].result = Some(TRUE)
                 /\ self.current_temperature = Some(AnsTemperature(t))
                 /\ self.setpoint = Some(AnsSetpoint(t))
                 /\ self.calibration = Some(AnsCalibration(t))
                 /\ self.power = Some(OnOff(AnsPowerOn(t)))
                 /\ self.mode = Some(IF HasBit(AnsData0(t), 8) THEN "manual" ELSE "weekly")
                 /\ self.locked = Some(OnOff(HasBit(AnsData0(t), 4)))
            ELSE /\ th[t].sendResult = Some(FALSE)
                 /\ SnapshotUnchanged(t)

\* turn_off was answered 50 01 01 1c fb 2a 2c ff, checksum ff instead of f1,
\* and the snapshot took the frame's setpoint
C12_Witness ==
    \E t \in Threads :
        /\ Finished(t)
        /\ th[t].op = "turn_off"
        /\ BadChecksum(th[t].bytesReceived)
        /\ GoodAnswer(th[t].bytesReceived)
        /\ Byte(th[t].bytesReceived, 7) = 255
        /\ th[t].result = Some(TRUE)
        /\ Before(t).setpoint = Some(510)
        /\ self.setpoint = Some(84)

---------------------------------------------------------------------------
\* stages of the codec run at which the encoded bytes, the decoded frame exist
AfterEncode == codec.stage \in {"bytes", "hex", "decoded", "read"}
AfterDecode == codec.stage \in {"decoded", "read"}

\* C13: for command, data0..data3 in 0..255 the eighth byte of the encoded
\* frame, and the checksum field decoded from its hex text, is
\* ((command + 1 + 1 + data0 + data1 + data2 + data3) & 0xFF) XOR 0xA5,
\* a value in 0..255; encoding never fails.
C13_ChecksumProperty ==
    codec.kind = "outgoing" =>
        LET q == codec.input
            expected == ExpectedChecksum(q[1], 1, 1, q[2], q[3], q[4], q[5])
        IN  /\ codec.stage # "raised"
            /\ AfterEncode => /\ Len(codec.bytes) = 8
                              /\ codec.bytes[8] = expected
                              /\ expected \in 0..255
            /\ AfterDecode => codec.decoded[8] = expected

\* command c8 with four ff: the sum 1222 wraps to c6, checksum 63
C13_Witness ==
    /\ codec.kind = "outgoing"
    /\ codec.stage = "read"
    /\ codec.input = <<200, 255, 255, 255, 255>>
    /\ codec.bytes[8] = 99
    /\ codec.decoded[8] = 99

\* C14: decoding the hex text of an encoded frame gives back command and
\* data0..data3 and id0 = id1 = 1, whatever bytes follow the first 16
\* hex characters.
C14_RoundTrip ==
    (codec.kind = "outgoing" /\ AfterDecode) =>
        LET q == codec.input
        IN  /\ Len(codec.hex) = 16 + 2 * Len(codec.trailing)
            /\ codec.decoded[1] = q[1]
            /\ codec.decoded[2] = 1
            /\ codec.decoded[3] = 1
            /\ codec.decoded[4] = q[2]
            /\ codec.decoded[5] = q[3]
            /\ codec.decoded[6] = q[4]
            /\ codec.decoded[7] = q[5]

\* a frame followed by the bytes 01 02 decoded to its own data1 = 0x25
C14_Witness ==
    /\ codec.kind = "outgoing"
    /\ codec.stage = "decoded"
    /\ codec.trailing = <<1, 2>>
    /\ codec.input = <<0, 255, 37, 0, 255>>
    /\ codec.decoded[5] = 37

EncoderKinds == {"read_status", "set_all", "reencoded", "lock", "unlock", "set_time"}

\* C15: is_valid is true exactly for command 0x50 and id0 = id1 = 0x01, and
\* false for every frame one of the command constructors encoded.
C15_ValidateIff ==
    codec.stage = "read" =>
        /\ codec.status[1].valid = ( /\ Byte(codec.hex, 0) = 80
                                     /\ Byte(codec.hex, 1) = 1
                                     /\ Byte(codec.hex, 2) = 1 )
        /\ codec.kind \in EncoderKinds => ~codec.status[1].valid

\* the echo of a Lock command (a4 01 01 ..) was read and is not valid
C15_Witness ==
    /\ codec.stage = "read"
    /\ codec.kind = "lock"
    /\ Byte(codec.hex, 0) = 164
    /\ Byte(codec.hex, 1) = 1
    /\ Byte(codec.hex, 2) = 1
    /\ ~codec.status[1].valid

\* C16: SetAllData encodes a calibration c in -256..-1 as data1 = c + 256
\* and decoding that byte gives c; decoding gives data1 - 256 for every
\* data1, a negative number, and encoding it again gives the data1 received.
C16_CalibrationRoundTrip ==
    /\ (codec.kind = "set_all" /\ codec.input[4] \in (-256)..(-1)) =>
          /\ codec.payload[5] = codec.input[4] + 256
          /\ AfterEncode => codec.bytes[5] = codec.input[4] + 256
          /\ codec.stage = "read" => codec.status[1].calibration = codec.input[4]
    /\ codec.stage = "read" =>
          /\ codec.status[1].calibration = Byte(codec.hex, 4) - 256
          /\ codec.status[1].calibration < 0
    /\ codec.kind = "reencoded" =>
          /\ codec.payload[5] = Byte(codec.origin, 4)
          /\ AfterEncode => codec.bytes[5] = Byte(codec.origin, 4)

\* calibration -5 went out as fb and was read back as -5
C16_Witness ==
    /\ codec.kind = "set_all"
    /\ codec.stage = "read"
    /\ codec.input[4] = -5
    /\ codec.bytes[5] = 251
    /\ codec.status[1].calibration = -5

---------------------------------------------------------------------------
\* C17: after a successful status read, reading the controller's `locked`
\* property yields the lock state decoded from the response, bit 0x04 of
\* data0.
C17_LockedIsExposed ==
    \A t \in Threads :
        ( /\ Finished(t)
          /\ th[t].op = "property"
          /\ th[t].arg = <<"locked">>
          /\ lastFrame # None )
        => /\ th[t].failure = "none"
           /\ th[t].value = Some(Some(OnOff(HasBit(lastFrame[1][4], 4))))

\* C18: check_host returns True iff its connect succeeded; it writes no
\* frame, reads no response, leaves every snapshot field unchanged and
\* its connection is closed when it returns, on success and on failure.
C18_CheckHostOnlyConnects ==
    \A t \in Threads :
        th[t].op = "check_host" =>
            /\ th[t].written = <<>>
            /\ th[t].reads = 0
            /\ th[t].bytesReceived = <<>>
            /\ SnapshotUnchanged(t)
            /\ Finished(t) =>
                  /\ th[t].result = Some(th[t].failure = "none")
                  /\ th[t].opened = 1
                  /\ th[t].sock = "closed"

\* the connect timed out while the snapshot said Heating
C18_Witness ==
    \E t \in Threads :
        /\ Finished(t)
        /\ th[t].op = "check_host"
        /\ th[t].failure = "connect_timeout"
        /\ th[t].result = Some(FALSE)
        /\ th[t].sock = "closed"
        /\ self.idle = Some(FALSE)

PublicOps == GuardedOps \cup {"read_status", "check_host"}

\* int(temperature * 2.0) for a temperature in quarter degrees
DoubledInt(x) == IF x >= 0 THEN x \div 2 ELSE -((-x) \div 2)

\* C19: every public operation ends by returning a boolean, whatever the
\* state, the transport outcome and the response; set_temperature with a
\* value whose doubled integer is outside 0..255 returns False and writes
\* no frame.
C19_NoExceptionEscapes ==
    \A t \in Threads :
        (Finished(t) /\ th[t].op \in PublicOps) =>
            /\ th[t].result \in {Some(TRUE), Some(FALSE)}
            /\ (th[t].op = "set_temperature" /\ DoubledInt(th[t].arg[1]) \notin 0..255) =>
                  /\ th[t].result = Some(FALSE)
                  /\ th[t].written = <<>>

\* set_temperature(-1.5) passed the guard, connected, and failed to encode -3
C19_Witness ==
    \E t \in Threads :
        /\ Finished(t)
        /\ th[t].op = "set_temperature"
        /\ th[t].arg = <<-6>>
        /\ th[t].failure = "encode"
        /\ th[t].opened = 1
        /\ th[t].result = Some(FALSE)
        /\ th[t].written = <<>>

\* C19, at the codec: getBytesHex raises for a SetAllData payload whose
\* calibration is outside -256..255 or whose doubled setpoint is outside
\* 0..255, so no bytes exist to be written.
C19_EncodeRaisesOutOfRange ==
    ( /\ codec.kind = "set_all"
      /\ codec.stage # "payload"
      /\ \/ codec.input[4] \notin (-256)..255
         \/ DoubledInt(codec.input[5]) \notin 0..255 )
    => codec.stage = "raised" /\ codec.bytes = <<>>

\* C20: an invocation opens at most one connection, writes at most one
\* frame on it and reads at most once, whether it succeeds or fails; it
\* starts without a connection and the one it opened is closed when it
\* returns, so nothing is retried and no connection is reused.
C20_OneCommandOneConnection ==
    \A t \in Threads :
        /\ th[t].opened <= 1
        /\ Len(th[t].written) <= 1
        /\ th[t].reads <= 1
        /\ th[t].pc \in {"idle", "connect", "probe"} =>
              th[t].sock = "none" /\ th[t].opened = 0
        /\ (Len(th[t].written) = 1 \/ th[t].reads = 1) =>
              th[t].opened = 1 /\ th[t].sock # "none"
        /\ th[t].reads = 1 => Len(th[t].written) = 1
        /\ (Finished(t) /\ th[t].opened = 1) => th[t].sock = "closed"

\* turn_on connected, wrote its frame, and the single read timed out
C20_Witness ==
    \E t \in Threads :
        /\ Finished(t)
        /\ th[t].op = "turn_on"
        /\ th[t].failure = "recv_timeout"
        /\ th[t].result = Some(FALSE)
        /\ th[t].opened = 1
        /\ Len(th[t].written) = 1
        /\ th[t].reads = 1

---------------------------------------------------------------------------
\* C21: every operation that was called eventually returns, against any
\* peer: connect, send and recv each end with a result, an error or a
\* timeout, a peer that accepts and stays silent being the recv timeout.
C21_EveryCallReturns ==
    \A t \in Threads : (th[t].pc # "idle") ~> Finished(t)

\* set_time was sent to a peer that never answered, and returned False
C21_Witness ==
    \E t \in Threads :
        /\ Finished(t)
        /\ th[t].op = "set_time"
        /\ th[t].failure = "recv_timeout"
        /\ th[t].reads = 1
        /\ th[t].bytesReceived = <<>>
        /\ th[t].result = Some(FALSE)

---------------------------------------------------------------------------
---------------------------------------------------------------------------
\* the idle flag the rule gives for the received frame and the idle state
\* the snapshot had when the operation was called
IdleFromAnswer(t) ==
    IF AnsPowerOn(t)
    THEN IF WasIdleBefore(t) /\ BelowBand(t) THEN FALSE
         ELSE IF ~WasIdleBefore(t) /\ AboveBand(t) THEN TRUE
         ELSE WasIdleBefore(t)
    ELSE TRUE

\* C23: was_idle is read while the snapshot is still the one the operation
\* found, and it is the value used; after a successful exchange idle is the
\* rule applied to the temperature, setpoint and power of the new response,
\* never to the cached ones.
C23_IdleFromNewResponse ==
    \A t \in Threads :
        /\ th[t].pc = "write" =>
              /\ self = Before(t)
              /\ th[t].wasIdle = WasIdleBefore(t)
        /\ th[t].pc = "derive" =>
              /\ th[t].wasIdle = WasIdleBefore(t)
              /\ self.idle = Before(t).idle
        /\ Succeeded(t) => self.idle = Some(IdleFromAnswer(t))

\* Heating with a cached setpoint of 127.5; the response says setpoint 21.0
\* and temperature 22.0, above the new band: Idle
C23_Witness ==
    \E t \in Threads :
        /\ Succeeded(t)
        /\ Before(t).idle = Some(FALSE)
        /\ Before(t).setpoint = Some(510)
        /\ AnsPowerOn(t)
        /\ AnsSetpoint(t) = 84
        /\ AnsTemperature(t) = 88
        /\ self.idle = Some(TRUE)

---------------------------------------------------------------------------
\* C24: the data0 byte SetAllData builds has bit 0x04 set iff lock is on,
\* bit 0x08 iff mode is manual, bit 0x10 iff power is on, and no other bit;
\* is_locked, get_mode and is_on applied to it return the same lock, mode
\* and power.
C24_FlagRoundTrip ==
    codec.kind = "set_all" =>
        LET wantMode == codec.input[1]
            wantPower == codec.input[2]
            wantLock == codec.input[3]
            data0 == codec.payload[4]
        IN  /\ data0 = (IF wantLock = "on" THEN 4 ELSE 0)
                       + (IF wantMode = "manual" THEN 8 ELSE 0)
                       + (IF wantPower = "on" THEN 16 ELSE 0)
            /\ AfterEncode => codec.bytes[4] = data0
            /\ codec.stage = "read" =>
                  /\ Byte(codec.hex, 3) = data0
                  /\ codec.status[1].locked = (wantLock = "on")
                  /\ codec.status[1].mode = wantMode
                  /\ codec.status[1].on = (wantPower = "on")

\* manual, off, locked went out as data0 = 0c and was read back the same
C24_Witness ==
    /\ codec.kind = "set_all"
    /\ codec.stage = "read"
    /\ codec.input[1] = "manual"
    /\ codec.input[2] = "off"
    /\ codec.input[3] = "on"
    /\ codec.bytes[4] = 12
    /\ codec.status[1].locked
    /\ codec.status[1].mode = "manual"
    /\ ~codec.status[1].on

---------------------------------------------------------------------------
MirroredFields ==
    <<self.current_temperature, self.setpoint, self.calibration,
      self.power, self.mode, self.locked>>

AllAbsent == \A i \in 1..6 : MirroredFields[i] = None
AllPresent == \A i \in 1..6 : MirroredFields[i] # None

\* C25: the six mirrored fields are all absent or all present; they are
\* absent exactly while no exchange has succeeded; once present they stay
\* present through every step, so the guard of the guarded operations,
\* once open, stays open.
C25_AllOrNothing ==
    /\ [](AllAbsent \/ AllPresent)
    /\ [](AllAbsent <=> lastFrame = None)
    /\ [](AllPresent => is_data_valid)
    /\ [][AllPresent => AllPresent']_vars
    /\ [][is_data_valid => is_data_valid']_vars

\* with the snapshot present, a read_status got a frame with a wrong id and
\* failed; the snapshot is still present
C25_Witness ==
    \E t \in Threads :
        /\ Failed(t)
        /\ th[t].op = "read_status"
        /\ th[t].failure = "invalid"
        /\ Before(t).mode # None
        /\ AllPresent
        /\ is_data_valid

---------------------------------------------------------------------------
\* no operation is between its six assignments and its assignment of idle
BetweenOperations == \A t \in Threads : th[t].pc # "derive"

\* C26: between operations, a snapshot whose power is off has idle = Idle;
\* Heating is reported only with power on, also after failed exchanges
\* that follow a power-off response.
C26_HeatingImpliesPowerOn ==
    BetweenOperations =>
        /\ self.power = Some(STATE_OFF) => self.idle = Some(TRUE)
        /\ self.idle = Some(FALSE) => self.power = Some(STATE_ON)

\* after a power-off response with a temperature below the band, a turn_on
\* whose read failed: power is off and idle is Idle
C26_Witness ==
    \E t \in Threads :
        /\ Failed(t)
        /\ th[t].op = "turn_on"
        /\ th[t].failure = "recv_error"
        /\ self.power = Some(STATE_OFF)
        /\ self.idle = Some(TRUE)
        /\ lastFrame # None
        /\ 2 * self.current_temperature[1] < 2 * self.setpoint[1] - self.hysteresis

===========================================================================
